---- MODULE Spec2Model ----
(***************************************************************************)
(* State-machine model of the GithubInsight server:                        *)
(*   server/routes.ts            the HTTP handlers and their helpers        *)
(*   server/storage.ts           MemStorage (src/unnamed/part_000)          *)
(*   server/services/openrouter.ts   analyzeCode                            *)
(* Strings that the code takes apart (URLs, full names) are sequences of    *)
(* tokens: the token "/" and slash-free pieces of text.                     *)
(***************************************************************************)
EXTENDS Integers, Sequences, FiniteSets, TLC

VARIABLES repositories, github, apiKey, req, explorer

vars == <<repositories, github, apiKey, req, explorer>>

(***************************************************************************)
(* Bounds of the model.                                                    *)
(***************************************************************************)
\* number of requests the server receives in one behaviour
NumReq == 2
\* longest weekly series the provider's commit_activity answer carries
MaxWeeks == 8
\* provider-assigned repository ids are 1..MaxId
MaxId == 2
\* number of path segments after the host in the URLs of SpecUrl
MaxSegs == 2
\* longest customSections list among the options of SpecReadme
MaxSections == 3
\* number of decimal ties above 1000 and above 1000000 among the star counts
MaxTies == 10
\* largest number of languages in a byte-map of SpecNumbers
MaxLangs == 2
\* longest weekly series among the commit_activity answers of SpecNumbers
MaxSeries == 13
\* number of entries of the pool that the trees of SpecSample are drawn from
MaxTree == 9
\* largest multiple of each unit of time among the ages of SpecTime
MaxCount == 3

Requests == 1..NumReq

(***************************************************************************)
(* Strings as token sequences.                                             *)
(***************************************************************************)
Slash == "/"

\* a value that is undefined / absent in the code
None == "none"

\* the value null, where the code expects an object
Null == "null"

\* url.replace(/\/$/, ""): one trailing slash is removed
StripNoop(s) == s

StripTrailingSlash(s) ==
    IF Len(s) > 0 /\ s[Len(s)] = Slash THEN SubSeq(s, 1, Len(s) - 1) ELSE s

\* s.split("/"): the slash-free segments of s, in order (never empty)
RECURSIVE Split(_)
Split(s) ==
    IF \A i \in 1..Len(s) : s[i] # Slash
    THEN <<s>>
    ELSE LET i == CHOOSE k \in 1..Len(s) :
                      s[k] = Slash /\ \A j \in 1..(k - 1) : s[j] # Slash
         IN  <<SubSeq(s, 1, i - 1)>> \o Split(SubSeq(s, i + 1, Len(s)))

\* the template literal `${owner}/${repo}`
FullNameOf(owner, repo) == owner \o <<Slash>> \o repo

\* z.string().url(): the modelled inputs parse as a URL exactly when they
\* start with a scheme, "//" and a host
IsUrl(u) ==
    /\ Len(u) >= 4
    /\ u[1] \in {"https:", "http:"}
    /\ u[2] = Slash /\ u[3] = Slash
    /\ u[4] # Slash

\* url.includes("github.com"): the text has no slash, so it lies in one piece
IncludesGithub(u) == \E i \in 1..Len(u) : u[i] = "github.com"

\* the host the URL references (the piece after "scheme://")
UrlHost(u) == IF IsUrl(u) THEN u[4] ELSE None

\* urlParts[urlParts.length - 2], urlParts[urlParts.length - 1]
UrlParts(u) == Split(StripTrailingSlash(u))

UrlOwner(u) ==
    LET p == UrlParts(u) IN IF Len(p) >= 2 THEN p[Len(p) - 1] ELSE <<>>

UrlRepo(u) == LET p == UrlParts(u) IN p[Len(p)]

(***************************************************************************)
(* The Metadata Provider (api.github.com), as the handlers see it.         *)
(***************************************************************************)
\* the provider resolves owner and repository names without regard to case
Lower(piece) == CASE piece = "Foo" -> "foo" [] OTHER -> piece

LowerKey(owner, repo) ==
    <<IF Len(owner) = 1 THEN Lower(owner[1]) ELSE None,
      IF Len(repo) = 1 THEN Lower(repo[1]) ELSE None>>

\* the repository the provider hosts, by lower-case owner and name; any other
\* name is not found
RepoKeys == {<<"foo", "bar">>}

\* full_name as the provider spells it
CanonicalName(k) == <<"Foo", Slash, k[2]>>

\* what a handler catches: nothing yet; an axios error with the upstream
\* response (its status and the message of its body: None if the body has
\* none, Null if the body is the JSON value null); an axios error without a
\* response
NoError == [kind |-> "none", status |-> 0, message |-> None, detail |-> None]

NetworkError == [kind |-> "network", status |-> 0, message |-> None, detail |-> None]

HttpError(status, message) ==
    [kind |-> "http", status |-> status, message |-> message, detail |-> None]

\* new Error(message), with the text interpolated into the message, if any
PlainError(message, detail) ==
    [kind |-> "plain", status |-> 0, message |-> message, detail |-> detail]

Failures ==
    { HttpError(403, "API rate limit exceeded"), HttpError(502, None),
      HttpError(500, Null), NetworkError }

NotFound == HttpError(404, "Not Found")

\* the answers GET /repos/{owner}/{repo} can give
RepoInfoAnswers(owner, repo) ==
    LET k == LowerKey(owner, repo) IN
    IF k \in RepoKeys
    THEN {[ok |-> TRUE, id |-> github[k], full_name |-> CanonicalName(k),
           language |-> "TypeScript", error |-> NoError]}
    ELSE {[ok |-> FALSE, id |-> 0, full_name |-> <<>>, language |-> None, error |-> NotFound]}

\* the language byte-map of GET languages_url, in the provider's order
LanguagesData == <<[name |-> "TypeScript", bytes |-> 3], [name |-> "Zig", bytes |-> 1]>>

\* the week (counted from the epoch) in which the model's requests arrive
NowWeek == 100

\* the array the commit_activity endpoint answers with: n weekly entries,
\* the last one for the current week
WeekSeries(n) == [i \in 1..n |-> [week |-> NowWeek - n + i, total |-> i]]

\* the shapes of the commit_activity answer: an array of weeks, an empty
\* body (204, no content) and a non-array object (202, {})
CommitShapes(lengths) ==
    {[shape |-> "array", weeks |-> WeekSeries(n)] : n \in lengths}
        \cup {[shape |-> "empty", weeks |-> <<>>], [shape |-> "object", weeks |-> <<>>]}

\* the answers the requests of Spec get
CommitAnswers == CommitShapes({MaxWeeks})

(***************************************************************************)
(* fetchRepositoryData: the record built from the three answers.           *)
(***************************************************************************)
\* months[date.getMonth()] of a week, with four weeks to the month
MonthOf(week) == ((week \div 4) % 12) + 1

\* Array.prototype.slice(-n)
SliceLast(s, n) == IF Len(s) <= n THEN s ELSE SubSeq(s, Len(s) - n + 1, Len(s))

\* commitActivityResponse.data || []
CommitData(answer) ==
    IF answer.shape = "empty" THEN [shape |-> "array", weeks |-> <<>>] ELSE answer

\* the chart series: the last 7 weeks of an array, 7 zero entries otherwise.
\* week is the week that the month label was taken from (it is not part of
\* the entry the code builds)
CommitActivity(answer) ==
    LET data == CommitData(answer) IN
    IF data.shape = "array"
    THEN LET last == SliceLast(data.weeks, 7)
         IN  [i \in 1..Len(last) |->
                 [month |-> MonthOf(last[i].week), count |-> last[i].total,
                  week |-> last[i].week]]
    ELSE [i \in 1..7 |-> [month |-> MonthOf(NowWeek - (i - 1)), count |-> 0,
                          week |-> NowWeek - (i - 1)]]

\* the sum of week.total over a series
RECURSIVE SumTotals(_)
SumTotals(weeks) ==
    IF weeks = <<>> THEN 0 ELSE Head(weeks).total + SumTotals(Tail(weeks))

\* a mean over all twelve weeks, however many the series has
DivisorTwelve(length) == 12

\* Math.min(commitData.length, 12) || 1
Divisor(length) ==
    LET least == IF length < 12 THEN length ELSE 12 IN
    IF least = 0 THEN 1 ELSE least

\* Math.round(sum / divisor), for sum >= 0: a half is rounded up
RoundedMean(sum, divisor) == (2 * sum + divisor) \div (2 * divisor)

\* the n of commitFrequency `${Math.round(averageWeeklyCommits)}/week`
CommitFrequency(answer) ==
    LET data == CommitData(answer) IN
    IF data.shape = "array"
    THEN RoundedMean(SumTotals(SliceLast(data.weeks, 12)), Divisor(Len(data.weeks)))
    ELSE 0

\* totalBytes, and the percentage bytes / (totalBytes || 1) * 100 as a fraction
TotalBytes(langs) ==
    LET RECURSIVE Sum(_)
        Sum(i) == IF i = 0 THEN 0 ELSE langs[i].bytes + Sum(i - 1)
    IN  Sum(Len(langs))

\* percentages without the guard: bytes / totalBytes * 100
LanguagesUnguarded(langs) ==
    [i \in 1..Len(langs) |->
        [name |-> langs[i].name, num |-> langs[i].bytes * 100, den |-> TotalBytes(langs)]]

Languages(langs) ==
    LET total == TotalBytes(langs) IN
    [i \in 1..Len(langs) |->
        [name |-> langs[i].name,
         num  |-> langs[i].bytes * 100,
         den  |-> IF total = 0 THEN 1 ELSE total]]

\* Math.floor(70 + Math.random() * 25): any value of 70..94; two of them
QualityValues == {70, 94}

(***************************************************************************)
(* getRelativeTimeString                                                   *)
(***************************************************************************)
\* 'just now'
JustNow == [count |-> 0, unit |-> "just now", plural |-> FALSE]

\* a comparison that also holds at the limit
AtMost(n, limit) == n <= limit

\* the comparisons diffInSeconds < 60, diffInMinutes < 60, ...
Below(n, limit) == n < limit

\* a plural that is also used for a count of one
AgoPlural(n, unit) == [count |-> n, unit |-> unit, plural |-> n >= 1]

\* `${n} ${unit}${n > 1 ? 's' : ''} ago`
Ago(n, unit) == [count |-> n, unit |-> unit, plural |-> n > 1]

\* getRelativeTimeString(date), for a date diffInSeconds before now
GetRelativeTimeString(diffInSeconds) ==
    LET diffInMinutes == diffInSeconds \div 60
        diffInHours == diffInMinutes \div 60
        diffInDays == diffInHours \div 24
        diffInMonths == diffInDays \div 30
        diffInYears == diffInMonths \div 12
    IN  IF Below(diffInSeconds, 60) THEN JustNow
        ELSE IF Below(diffInMinutes, 60) THEN Ago(diffInMinutes, "minute")
        ELSE IF Below(diffInHours, 24) THEN Ago(diffInHours, "hour")
        ELSE IF Below(diffInDays, 30) THEN Ago(diffInDays, "day")
        ELSE IF Below(diffInMonths, 12) THEN Ago(diffInMonths, "month")
        ELSE Ago(diffInYears, "year")

(***************************************************************************)
(* formatNumber                                                            *)
(***************************************************************************)
\* (x * 2^e) % m, by doubling
RECURSIVE DoubleMod(_, _, _)
DoubleMod(x, e, m) == IF e = 0 THEN x % m ELSE DoubleMod((2 * x) % m, e - 1, m)

\* the binary exponent of num / unit: the j with 2^j <= num / unit < 2^(j+1)
RECURSIVE Exponent(_, _)
Exponent(num, unit) == IF num < 2 * unit THEN 0 ELSE 1 + Exponent(num \div 2, unit)

\* num / unit is a double: the quotient rounded to 53 bits, ties to even.
\* TRUE when the double is not below the exact quotient
QuotientNotBelow(num, unit) ==
    LET scaled == DoubleMod(num % (2 * unit), 52 - Exponent(num, unit), 2 * unit)
        rest == scaled % unit
        odd == scaled >= unit
    IN  \/ rest = 0
        \/ 2 * rest > unit
        \/ 2 * rest = unit /\ odd

\* (num / unit).toFixed(1), in tenths: the tenth nearest to the double, the
\* larger one of two that are equally near
ToFixed1(num, unit) ==
    LET tenths == (10 * num) \div unit
        rest == (10 * num) % unit
    IN  IF 2 * rest > unit THEN tenths + 1
        ELSE IF 2 * rest < unit THEN tenths
        ELSE IF QuotientNotBelow(num, unit) THEN tenths + 1 ELSE tenths

\* a comparison that does not hold at the limit
Above(num, limit) == num > limit

\* num >= 1000000, num >= 1000
AtLeast(num, limit) == num >= limit

\* formatNumber(num): the tenths of the number part and the suffix, or the
\* number itself (as 10 * num tenths) without a suffix
FormatNumber(num) ==
    IF AtLeast(num, 1000000) THEN [tenths |-> ToFixed1(num, 1000000), suffix |-> "M"]
    ELSE IF AtLeast(num, 1000) THEN [tenths |-> ToFixed1(num, 1000), suffix |-> "k"]
    ELSE [tenths |-> 10 * num, suffix |-> ""]

\* repositoryData of fetchRepositoryData
RepositoryData(info, langs, commits, quality) ==
    [id |-> ToString(info.id),
     fullName |-> info.full_name,
     description |-> <<"A ", info.language, " repository">>,
     language |-> IF info.language # None THEN info.language ELSE "Unknown",
     stars |-> FormatNumber(info.stars),
     lastUpdated |-> GetRelativeTimeString(info.elapsed),
     codeQuality |-> quality,
     commitFrequency |-> CommitFrequency(commits),
     languages |-> Languages(langs),
     commitActivity |-> CommitActivity(commits)]

(***************************************************************************)
(* MemStorage: the Map of records by id, in insertion order.               *)
(***************************************************************************)
\* undefined, where the code expects a record
NoRepository ==
    [id |-> "", fullName |-> <<>>, description |-> <<>>, language |-> None,
     stars |-> [tenths |-> 0, suffix |-> ""],
     lastUpdated |-> JustNow, codeQuality |-> 0, commitFrequency |-> 0,
     languages |-> <<>>, commitActivity |-> <<>>]

\* Array.from(repositories.values()).find(repo => repo.fullName === fullName)
GetRepositoryByFullName(fullName) ==
    IF \E i \in 1..Len(repositories) : repositories[i].fullName = fullName
    THEN repositories[CHOOSE i \in 1..Len(repositories) :
             /\ repositories[i].fullName = fullName
             /\ \A j \in 1..(i - 1) : repositories[j].fullName # fullName]
    ELSE NoRepository

\* a lookup that finds a record for every id while the cache is not empty
GetRepositoryAny(id) ==
    IF repositories # <<>> THEN repositories[1] ELSE NoRepository

\* repositories.get(id)
GetRepository(id) ==
    IF \E i \in 1..Len(repositories) : repositories[i].id = id
    THEN repositories[CHOOSE i \in 1..Len(repositories) : repositories[i].id = id]
    ELSE NoRepository

\* a store that keeps the latest record only
CreateRepositoryOnly(repo) == <<repo>>

\* repositories.set(repo.id, repository): a known key keeps its place
CreateRepository(repo) ==
    IF \E i \in 1..Len(repositories) : repositories[i].id = repo.id
    THEN [i \in 1..Len(repositories) |->
             IF repositories[i].id = repo.id THEN repo ELSE repositories[i]]
    ELSE Append(repositories, repo)

(***************************************************************************)
(* Requests.  A request is received, runs its handler from one await to    *)
(* the next, and ends with its response.                                   *)
(***************************************************************************)
NoInfo ==
    [id |-> 0, full_name |-> <<>>, language |-> None, elapsed |-> 0, stars |-> 0,
     languages |-> <<>>]

\* commitData: nothing yet
NoCommits == [shape |-> "none", weeks |-> <<>>]

NoResponse ==
    [status |-> 0, message |-> <<>>, record |-> NoRepository, fileName |-> <<>>,
     analysis |-> None, data |-> None, content |-> <<>>, filename |-> None]

\* what analyzeCode got from the Completion Provider: nothing yet
NoCompletion == [kind |-> "none", status |-> 0, message |-> None, choices |-> <<>>]

\* fileContentResponse.data.content: undefined when the answer has no content
\* field (the listing of a directory), or a text of some length
NoContent == [defined |-> FALSE, size |-> 0]

\* the body of a README request.  A flag is true, false, null or absent;
\* customSections is a list of sections, null or absent; a title or a content
\* that is empty or absent is ""
NoSections == [kind |-> "absent", items |-> <<>>]

NoOptions ==
    [includeInstallation |-> "absent", includeUsage |-> "absent",
     includeContributing |-> "absent", includeLicense |-> "absent",
     customSections |-> NoSections]

\* the arguments of analyzeCode: nothing yet
NoPrompt == [directoryStructure |-> <<>>, codeContent |-> <<>>, filePath |-> <<>>]

IdleRequest ==
    [kind |-> "idle", pc |-> "idle", url |-> <<>>, owner |-> <<>>, repo |-> <<>>,
     info |-> NoInfo, repositoryId |-> "", filePath |-> <<>>, files |-> <<>>,
     content |-> NoContent, tree |-> <<>>, options |-> NoOptions,
     sampleCode |-> <<>>, prompt |-> NoPrompt, completion |-> NoCompletion,
     commitData |-> NoCommits,
     calls |-> <<>>, error |-> NoError, response |-> NoResponse]

\* res.status(status).json({ message })
ErrorResponse(status, message) ==
    [NoResponse EXCEPT !.status = status, !.message = message]

\* res.json(record)
RecordResponse(record) == [NoResponse EXCEPT !.status = 200, !.record = record]

\* res.json({ fileName, analysis })
AnalysisResponse(fileName, analysis) ==
    [NoResponse EXCEPT !.status = 200, !.fileName = fileName, !.analysis = analysis]

\* requests are numbered in the order in which they arrive
MayArrive(r) ==
    /\ req[r].pc = "idle"
    /\ \A q \in Requests : q < r => req[q].pc # "idle"

\* no handler is between two awaits
Quiet == \A q \in Requests : req[q].pc \in {"idle", "done"}

\* a handler returns with this response; its locals are gone
Done(q, response) ==
    [q EXCEPT !.pc = "done", !.info = NoInfo, !.files = <<>>, !.sampleCode = <<>>,
              !.content = NoContent,
              !.response = response]

\* a handler catches error and returns with this response
Failed(q, error, response) == [Done(q, response) EXCEPT !.error = error]

Finish(r, response) == req' = [req EXCEPT ![r] = Done(req[r], response)]

Fail(r, error, response) == req' = [req EXCEPT ![r] = Failed(req[r], error, response)]

\* error.errors[0].message of bodySchema.parse: the first violation
UrlViolation(u) ==
    IF ~IsUrl(u) THEN <<"Invalid URL format">>
    ELSE IF ~IncludesGithub(u) THEN <<"URL must be a GitHub repository">>
    ELSE <<>>

\* error.response.data.message in a catch block throws a TypeError when the
\* body of the upstream response is null: the handler's promise is rejected
\* and the handler sends nothing
CatchThrows(error) == error.kind = "http" /\ error.message = Null

\* the catch block of POST /api/analyze, for a failed provider call
AnalyzeCatch(error) ==
    IF CatchThrows(error) THEN NoResponse
    ELSE IF error.kind = "http"
    THEN ErrorResponse(error.status,
             <<"GitHub API error: ",
               IF error.message # None THEN error.message ELSE "Unknown error">>)
    ELSE ErrorResponse(500, <<"Failed to analyze repository">>)

(***************************************************************************)
(* POST /api/analyze                                                       *)
(***************************************************************************)
\* the handler up to its first provider call: validation, owner and repo,
\* the cache lookup
AnalyzeReceive(r, u) ==
    /\ MayArrive(r)
    /\ LET arrived == [req[r] EXCEPT !.kind = "analyze", !.url = u]
           owner == UrlOwner(u)
           repo == UrlRepo(u)
           parsed == [arrived EXCEPT !.owner = owner, !.repo = repo]
           existingRepo == GetRepositoryByFullName(FullNameOf(owner, repo))
       IN  IF UrlViolation(u) # <<>>
           THEN req' = [req EXCEPT ![r] = [arrived EXCEPT !.pc = "done",
                            !.response = ErrorResponse(400, UrlViolation(u))]]
           ELSE IF owner = <<>> \/ repo = <<>>
           THEN req' = [req EXCEPT ![r] = [arrived EXCEPT !.pc = "done",
                            !.response = ErrorResponse(400,
                                <<"Invalid GitHub repository URL. Format should be: https://github.com/owner/repo">>)]]
           ELSE IF existingRepo # NoRepository
           THEN req' = [req EXCEPT ![r] = [parsed EXCEPT !.pc = "done",
                            !.response = RecordResponse(existingRepo)]]
           ELSE req' = [req EXCEPT ![r] = [parsed EXCEPT !.pc = "repoInfo",
                            !.calls = <<"repo">>]]
    /\ UNCHANGED <<repositories, github, apiKey, explorer>>

\* GET /repos/{owner}/{repo} answers, for a repository with this
\* stargazers_count that was last updated elapsed seconds before the record
\* is built; on success languages_url is fetched
AnalyzeRepoInfoOf(r, elapsed, stars) ==
    /\ req[r].kind = "analyze" /\ req[r].pc = "repoInfo"
    /\ \E answer \in RepoInfoAnswers(req[r].owner, req[r].repo)
                        \cup {[ok |-> FALSE, id |-> 0, full_name |-> <<>>, language |-> None,
                               error |-> e] : e \in Failures} :
          IF answer.ok
          THEN req' = [req EXCEPT ![r].pc = "languages",
                           ![r].info = [id |-> answer.id, full_name |-> answer.full_name,
                                        language |-> answer.language, elapsed |-> elapsed,
                                        stars |-> stars, languages |-> <<>>],
                           ![r].calls = Append(@, "languages")]
          ELSE Fail(r, answer.error, AnalyzeCatch(answer.error))
    /\ UNCHANGED <<repositories, github, apiKey, explorer>>

\* the age of the repository's last update in the requests of Spec, in seconds
SampleElapsed == 7200

\* the stargazers_count of the repository in the requests of Spec
SampleStars == 1500

AnalyzeRepoInfoAt(r, elapsed) == AnalyzeRepoInfoOf(r, elapsed, SampleStars)

AnalyzeRepoInfo(r) == AnalyzeRepoInfoAt(r, SampleElapsed)

\* a languages step that stores what the ingestion has so far
AnalyzeLanguagesStoring(r, langs) ==
    /\ req[r].kind = "analyze" /\ req[r].pc = "languages"
    /\ req' = [req EXCEPT ![r].pc = "commits", ![r].info.languages = langs,
                          ![r].calls = Append(@, "commit_activity")]
    /\ repositories' = CreateRepository(
            RepositoryData(req[r].info, langs, [shape |-> "object", weeks |-> <<>>], 70))
    /\ UNCHANGED <<github, apiKey, explorer>>

\* GET languages_url answers, with this byte-map on success: commit_activity
\* is fetched
AnalyzeLanguagesOf(r, langs) ==
    /\ req[r].kind = "analyze" /\ req[r].pc = "languages"
    /\ \/ req' = [req EXCEPT ![r].pc = "commits", ![r].info.languages = langs,
                      ![r].calls = Append(@, "commit_activity")]
       \/ \E e \in Failures : Fail(r, e, AnalyzeCatch(e))
    /\ UNCHANGED <<repositories, github, apiKey, explorer>>

AnalyzeLanguages(r) == AnalyzeLanguagesOf(r, LanguagesData)

\* GET stats/commit_activity answers, with one of these answers on success:
\* the record is built, stored and returned
AnalyzeCommitsFrom(r, answers) ==
    /\ req[r].kind = "analyze" /\ req[r].pc = "commits"
    /\ \/ \E commits \in answers, quality \in QualityValues :
             LET repoData == RepositoryData(req[r].info, req[r].info.languages,
                                            commits, quality)
             IN  /\ repositories' = CreateRepository(repoData)
                 /\ req' = [req EXCEPT ![r] =
                                Done([req[r] EXCEPT !.commitData = CommitData(commits)],
                                     RecordResponse(repoData))]
       \/ /\ \E e \in Failures : Fail(r, e, AnalyzeCatch(e))
          /\ UNCHANGED repositories
    /\ UNCHANGED <<github, apiKey, explorer>>

AnalyzeCommits(r) == AnalyzeCommitsFrom(r, CommitAnswers)

(***************************************************************************)
(* The provider's side: a repository is deleted and created again under     *)
(* its name, and gets a fresh id.                                          *)
(***************************************************************************)
ProviderRecreate(k) ==
    /\ \A j \in RepoKeys : github[j] < MaxId
    /\ github' = [github EXCEPT ![k] = 1 + CHOOSE m \in 1..MaxId :
                                          /\ \E j \in RepoKeys : github[j] = m
                                          /\ \A j \in RepoKeys : github[j] <= m]
    /\ UNCHANGED <<repositories, apiKey, req, explorer>>

(***************************************************************************)
(* analyzeCode (services/openrouter.ts)                                    *)
(***************************************************************************)
\* an analyzeCode that goes on to the network call without the key
MissingApiKeyIgnored == FALSE

\* if (!apiKey): OPENROUTER_API_KEY is not set
MissingApiKey == ~apiKey

\* the answers of the Completion Provider: a completion, an empty choices
\* list, a body without choices, an error response with a message, an error
\* response whose body is null, no response
CompletionAnswers ==
    { [kind |-> "choices", status |-> 200, message |-> None, choices |-> <<"analysis">>],
      [kind |-> "choices", status |-> 200, message |-> None, choices |-> <<>>],
      [kind |-> "nochoices", status |-> 200, message |-> None, choices |-> <<>>],
      [kind |-> "http", status |-> 401, message |-> "No auth credentials found",
       choices |-> <<>>],
      [kind |-> "http", status |-> 500, message |-> Null, choices |-> <<>>],
      [kind |-> "network", status |-> 0, message |-> None, choices |-> <<>>] }

\* the catch block of analyzeCode: every error leaves as a plain Error
AnalyzeCodeCatch(error) ==
    IF error.kind = "http" /\ error.message = Null
    THEN PlainError("TypeError: Cannot read properties of null", None)
    ELSE IF error.kind = "http"
    THEN PlainError("OpenRouter API error: ", error.message)
    ELSE PlainError("Failed to analyze code with OpenRouter", None)

\* the try block of analyzeCode once the provider has answered: the first
\* choice's text, or the error that analyzeCode throws to its caller
AnalyzeCodeResult(answer) ==
    IF answer.kind \in {"choices", "nochoices"}
    THEN IF answer.kind = "choices" /\ Len(answer.choices) > 0
         THEN [ok |-> TRUE, content |-> answer.choices[1], error |-> NoError]
         ELSE [ok |-> FALSE, content |-> None,
               error |-> AnalyzeCodeCatch(PlainError("No response from OpenRouter API", None))]
    ELSE [ok |-> FALSE, content |-> None,
          error |-> AnalyzeCodeCatch([kind |-> answer.kind, status |-> answer.status,
                                      message |-> answer.message, detail |-> None])]

(***************************************************************************)
(* POST /api/analyze-file and POST /api/analyze-repository-code            *)
(***************************************************************************)
\* the catch blocks of analyze-file, analyze-repository-code and files
RouteCatch(kind, error) ==
    IF CatchThrows(error) THEN NoResponse
    ELSE IF error.kind = "http"
    THEN ErrorResponse(error.status,
             <<"GitHub API error: ",
               IF error.message # None THEN error.message ELSE "Unknown error">>)
    ELSE ErrorResponse(500, IF kind = "file" THEN <<"Failed to analyze file">>
                            ELSE IF kind = "files" THEN <<"Failed to fetch repository files">>
                            ELSE <<"Failed to analyze repository">>)

\* the tree GET git/trees/HEAD?recursive=1 answers with; size is the length
\* of a file's content
SampleTree ==
    << [type |-> "tree", path |-> <<"src">>, size |-> 0],
       [type |-> "blob", path |-> <<"src", Slash, "app", ".ts">>, size |-> 1200],
       [type |-> "blob", path |-> <<"node_modules", Slash, "x", ".js">>, size |-> 10],
       [type |-> "blob", path |-> <<"lib", Slash, "jquery", ".min", ".js">>, size |-> 10],
       [type |-> "blob", path |-> <<"README", ".md">>, size |-> 10],
       [type |-> "commit", path |-> <<"sub">>, size |-> 0],
       [type |-> "blob", path |-> <<"src", Slash, "util", ".py">>, size |-> 10] >>

\* the length of the content GET contents/{path} answers with
ContentSize(path) ==
    IF \E i \in 1..Len(SampleTree) : SampleTree[i].path = path
    THEN SampleTree[CHOOSE i \in 1..Len(SampleTree) : SampleTree[i].path = path].size
    ELSE 0

\* dirStructure: "directory: path" or "file: path" for every tree and blob
DirStructure(tree) ==
    LET Listed(item) == item.type \in {"tree", "blob"}
        kept == SelectSeq(tree, Listed)
    IN  [i \in 1..Len(kept) |->
            [label |-> IF kept[i].type = "tree" THEN "directory" ELSE "file",
             path |-> kept[i].path]]

ImportantFileExtensions ==
    {".js", ".ts", ".jsx", ".tsx", ".py", ".java", ".php", ".go", ".rb", ".c", ".cpp"}

\* item.path.includes('node_modules/') or item.path.includes('vendor/')
InVendorDirectory(path) ==
    \E i \in 1..(Len(path) - 1) :
        path[i] \in {"node_modules", "vendor"} /\ path[i + 1] = Slash

\* item.path.match(/\.(min|bundle|compiled)\./i)
IsMinified(path) ==
    \E i \in 1..(Len(path) - 1) :
        /\ path[i] \in {".min", ".bundle", ".compiled", ".MIN", ".Bundle"}
        /\ path[i + 1] \in ImportantFileExtensions \cup {".md", ".min", ".bundle", ".compiled"}

\* codeFiles: the first 5 code files of the tree
CodeFiles(tree) ==
    LET Important(item) ==
            /\ item.type = "blob"
            /\ Len(item.path) > 0 /\ item.path[Len(item.path)] \in ImportantFileExtensions
            /\ ~InVendorDirectory(item.path)
            /\ ~IsMinified(item.path)
        kept == SelectSeq(tree, Important)
    IN  SubSeq(kept, 1, IF Len(kept) < 5 THEN Len(kept) ELSE 5)

\* an entry with the whole content, whatever its length
SampleEntryWhole(file) ==
    [path |-> file.path, shown |-> file.size, ellipsis |-> FALSE]

\* content.slice(0, 1000) and the '...' that follows a longer content
SampleEntry(file) ==
    [path |-> file.path,
     shown |-> IF file.size > 1000 THEN 1000 ELSE file.size,
     ellipsis |-> file.size > 1000]

\* filePath.split('/').pop() || filePath
FileNameOf(filePath) ==
    LET parts == Split(filePath) IN
    IF parts[Len(parts)] # <<>> THEN parts[Len(parts)] ELSE filePath

\* a call of analyzeCode that posts the prompt twice
AnalyzeCodeCallTwice(q, prompt) ==
    [q EXCEPT !.pc = "completion", !.prompt = prompt,
              !.calls = @ \o <<"completion", "completion">>]

\* the call of analyzeCode by a handler: without the key it throws before any
\* network call, and the handler's catch block answers
AnalyzeCodeCall(q, prompt) ==
    IF MissingApiKey
    THEN LET error == PlainError("OpenRouter API key is not configured", None)
         IN  Failed([q EXCEPT !.prompt = prompt], error, RouteCatch(q.kind, error))
    ELSE [q EXCEPT !.pc = "completion", !.prompt = prompt,
                   !.calls = Append(@, "completion")]

\* the handler of analyze-file up to its first provider call
FileReceive(r, id, path) ==
    /\ MayArrive(r)
    /\ LET arrived == [req[r] EXCEPT !.kind = "file", !.repositoryId = id, !.filePath = path]
           repository == GetRepository(id)
           parts == Split(repository.fullName)
       IN  IF id = ""
           THEN req' = [req EXCEPT ![r] =
                            Done(arrived, ErrorResponse(400, <<"Repository ID is required">>))]
           ELSE IF path = <<>>
           THEN req' = [req EXCEPT ![r] =
                            Done(arrived, ErrorResponse(400, <<"File path is required">>))]
           ELSE IF repository = NoRepository
           THEN req' = [req EXCEPT ![r] =
                            Done(arrived, ErrorResponse(404, <<"Repository not found">>))]
           ELSE req' = [req EXCEPT ![r] =
                            [arrived EXCEPT !.pc = "contents", !.owner = parts[1],
                                            !.repo = parts[2],
                                            !.info.full_name = repository.fullName,
                                            !.calls = <<"contents">>]]
    /\ UNCHANGED <<repositories, github, apiKey, explorer>>

\* GET contents/{filePath} answers; on success the tree is fetched
FileContents(r) ==
    /\ req[r].kind = "file" /\ req[r].pc = "contents"
    /\ \/ \E content \in {NoContent,
                          [defined |-> TRUE, size |-> ContentSize(req[r].filePath)]} :
             req' = [req EXCEPT ![r].pc = "tree", ![r].content = content,
                                ![r].calls = Append(@, "tree")]
       \/ \E e \in Failures \cup {NotFound} : Fail(r, e, RouteCatch("file", e))
    /\ UNCHANGED <<repositories, github, apiKey, explorer>>

\* GET git/trees/HEAD answers; on success the content is decoded
\* (Buffer.from throws on undefined) and analyzeCode is called
FileTree(r) ==
    /\ req[r].kind = "file" /\ req[r].pc = "tree"
    /\ \/ IF req[r].content.defined
          THEN req' = [req EXCEPT ![r] = AnalyzeCodeCall(req[r],
                           [directoryStructure |-> DirStructure(SampleTree),
                            codeContent |-> <<[path |-> req[r].filePath,
                                               shown |-> req[r].content.size,
                                               ellipsis |-> FALSE]>>,
                            filePath |-> req[r].filePath])]
          ELSE LET error == PlainError("TypeError: The first argument must be of type string", None)
               IN  Fail(r, error, RouteCatch("file", error))
       \/ \E e \in Failures : Fail(r, e, RouteCatch("file", e))
    /\ UNCHANGED <<repositories, github, apiKey, explorer>>

\* the handler of analyze-repository-code up to its first provider call
RepoReceive(r, id) ==
    /\ MayArrive(r)
    /\ LET arrived == [req[r] EXCEPT !.kind = "repo", !.repositoryId = id]
           repository == GetRepository(id)
           parts == Split(repository.fullName)
       IN  IF id = ""
           THEN req' = [req EXCEPT ![r] =
                            Done(arrived, ErrorResponse(400, <<"Repository ID is required">>))]
           ELSE IF repository = NoRepository
           THEN req' = [req EXCEPT ![r] =
                            Done(arrived, ErrorResponse(404, <<"Repository not found">>))]
           ELSE req' = [req EXCEPT ![r] =
                            [arrived EXCEPT !.pc = "tree", !.owner = parts[1],
                                            !.repo = parts[2],
                                            !.info.full_name = repository.fullName,
                                            !.calls = <<"tree">>]]
    /\ UNCHANGED <<repositories, github, apiKey, explorer>>

\* the prompt of the whole-repository analysis
RepoPrompt(tree, sampleCode) ==
    [directoryStructure |-> DirStructure(tree), codeContent |-> sampleCode,
     filePath |-> <<"entire repository">>]

\* GET git/trees/HEAD answers, with this tree on success: the first code
\* file is fetched, or analyzeCode is called when there is none
RepoTreeOf(r, tree) ==
    /\ req[r].kind = "repo" /\ req[r].pc = "tree"
    /\ \/ IF CodeFiles(tree) = <<>>
          THEN req' = [req EXCEPT ![r] = AnalyzeCodeCall([req[r] EXCEPT !.tree = tree],
                                                         RepoPrompt(tree, <<>>))]
          ELSE req' = [req EXCEPT ![r].pc = "files", ![r].tree = tree,
                           ![r].files = CodeFiles(tree),
                           ![r].calls = Append(@, "contents")]
       \/ \E e \in Failures : Fail(r, e, RouteCatch("repo", e))
    /\ UNCHANGED <<repositories, github, apiKey, explorer>>

RepoTree(r) == RepoTreeOf(r, SampleTree)

\* the loop goes on after a file: the next file is fetched, or analyzeCode is
\* called after the last one
NextFile(q, sampleCode) ==
    IF Tail(q.files) = <<>>
    THEN AnalyzeCodeCall([q EXCEPT !.files = <<>>, !.sampleCode = sampleCode],
                         RepoPrompt(q.tree, sampleCode))
    ELSE [q EXCEPT !.files = Tail(q.files), !.sampleCode = sampleCode,
                   !.calls = Append(@, "contents")]

\* a loop without the try around the fetch: a failure ends the request
FileFetchedOrThrow(q, fetched) ==
    IF fetched THEN NextFile(q, Append(q.sampleCode, SampleEntry(Head(q.files))))
    ELSE Failed(q, NetworkError, RouteCatch("repo", NetworkError))

\* one turn of the loop: the file's entry is added to sampleCode, or the
\* catch block of the loop logs the failure and nothing is added
FileFetched(q, fetched) ==
    NextFile(q, IF fetched THEN Append(q.sampleCode, SampleEntry(Head(q.files)))
                ELSE q.sampleCode)

\* GET contents/{file.path} answers for the next code file, or fails
RepoFile(r) ==
    /\ req[r].kind = "repo" /\ req[r].pc = "files"
    /\ \E fetched \in BOOLEAN : req' = [req EXCEPT ![r] = FileFetched(req[r], fetched)]
    /\ UNCHANGED <<repositories, github, apiKey, explorer>>

\* the Completion Provider answers the call of analyzeCode
Completion(r) ==
    /\ req[r].kind \in {"file", "repo"} /\ req[r].pc = "completion"
    /\ \E answer \in CompletionAnswers :
          LET result == AnalyzeCodeResult(answer)
              q == [req[r] EXCEPT !.completion = answer]
              fileName == IF q.kind = "file" THEN FileNameOf(q.filePath)
                          ELSE q.info.full_name
          IN  IF result.ok
              THEN req' = [req EXCEPT ![r] =
                               Done(q, AnalysisResponse(fileName, result.content))]
              ELSE req' = [req EXCEPT ![r] =
                               Failed(q, result.error, RouteCatch(q.kind, result.error))]
    /\ UNCHANGED <<repositories, github, apiKey, explorer>>

(***************************************************************************)
(* generateReadmeContent and POST /api/readme/:id                          *)
(***************************************************************************)
\* a heading line and the lines under it
Block(heading, body) == [heading |-> heading, body |-> body]

\* a flag without the default: an absent flag leaves the section out
IncludedIfTrue(flag) == flag = "true"

\* includeX = true in the destructuring, then if (includeX): the default
\* stands in for an absent flag only
Included(flag) == flag \in {"true", "absent"}

\* a section's heading without its content
SectionTitleOnly(section) == Block(<<"## ", section.title>>, <<>>)

\* `## ${section.title}` and `${section.content}`
SectionBlock(section) == Block(<<"## ", section.title>>, <<section.content>>)

\* the dependency installation line for the repository's language
InstallCommand(language) ==
    IF language \in {"JavaScript", "TypeScript"} THEN "npm install"
    ELSE IF language = "Python" THEN "pip install -r requirements.txt"
    ELSE IF language = "Java" THEN "mvn install"
    ELSE "# Install dependencies according to your package manager"

\* the language of the usage example
UsageFence(language) ==
    IF language \in {"JavaScript", "TypeScript"} THEN "javascript"
    ELSE IF language = "Python" THEN "python"
    ELSE IF language = "Java" THEN "java"
    ELSE "// Example usage code"

\* the blocks that generateReadmeContent returns, or the TypeError of
\* customSections.forEach when customSections is null
GenerateReadmeContent(repository, options) ==
    LET repoName == Split(repository.fullName)[2]
        Optional(flag, block) == IF Included(flag) THEN <<block>> ELSE <<>>
        Complete(section) == section.title # "" /\ section.content # ""
        customSections == IF options.customSections.kind = "absent" THEN <<>>
                          ELSE options.customSections.items
        complete == SelectSeq(customSections, Complete)
    IN  [ok |-> options.customSections.kind # "null",
         content |->
            << Block(<<"# ">> \o repoName,
                     repository.description \o <<"stars", "license", "last commit">>),
               Block(<<"## ", "Overview">>,
                     <<"This repository contains a ", repository.language, " project">>),
               Block(<<"## ", "Languages">>,
                     [i \in 1..Len(repository.languages) |-> repository.languages[i].name]) >>
            \o Optional(options.includeInstallation,
                   Block(<<"## ", "Installation">>,
                         <<"git clone ">> \o repository.fullName \o <<"cd ">> \o repoName
                            \o <<InstallCommand(repository.language)>>))
            \o Optional(options.includeUsage,
                   Block(<<"## ", "Usage">>, <<UsageFence(repository.language)>> \o repoName))
            \o Optional(options.includeContributing,
                   Block(<<"## ", "Contributing">>, <<"Contributions are welcome!">>))
            \o Optional(options.includeLicense,
                   Block(<<"## ", "License">>, <<"This project is licensed under the MIT License">>))
            \o [i \in 1..Len(complete) |-> SectionBlock(complete[i])]
            \o << Block(<<"---">>, <<"Generated by GitHub Repository Analyzer on ", "today">>) >>]

\* res.json({ content, filename: "README.md" })
ReadmeResponse(content) ==
    [NoResponse EXCEPT !.status = 200, !.content = content, !.filename = "README.md"]

\* the handler of readme: the lookup, the generation, the answer
ReadmeReceive(r, id, options) ==
    /\ MayArrive(r)
    /\ LET arrived == [req[r] EXCEPT !.kind = "readme", !.repositoryId = id,
                                     !.options = options]
           repository == GetRepository(id)
           generated == GenerateReadmeContent(repository, options)
           error == PlainError("TypeError: Cannot read properties of null", None)
       IN  IF repository = NoRepository
           THEN req' = [req EXCEPT ![r] =
                            Done(arrived, ErrorResponse(404, <<"Repository not found">>))]
           ELSE IF generated.ok
           THEN req' = [req EXCEPT ![r] = Done(arrived, ReadmeResponse(generated.content))]
           ELSE req' = [req EXCEPT ![r] =
                            Failed(arrived, error,
                                   ErrorResponse(500, <<"Failed to generate README">>))]
    /\ UNCHANGED <<repositories, github, apiKey, explorer>>

(***************************************************************************)
(* GET /api/files/:owner/:repo                                             *)
(***************************************************************************)
\* the handler up to its provider call: nothing is validated or looked up
FilesReceive(r, owner, repo) ==
    /\ MayArrive(r)
    /\ req' = [req EXCEPT ![r] = [req[r] EXCEPT !.kind = "files", !.pc = "contents",
                                                !.owner = owner, !.repo = repo,
                                                !.calls = <<"contents">>]]
    /\ UNCHANGED <<repositories, github, apiKey, explorer>>

\* GET contents/{path} answers: the body is passed on, or the catch block
\* answers
FilesContents(r) ==
    /\ req[r].kind = "files" /\ req[r].pc = "contents"
    /\ \/ Finish(r, [NoResponse EXCEPT !.status = 200, !.data = "contents"])
       \/ \E e \in Failures \cup {NotFound} : Fail(r, e, RouteCatch("files", e))
    /\ UNCHANGED <<repositories, github, apiKey, explorer>>

(***************************************************************************)
(* The file explorer of the client (components/file-explorer.tsx), with    *)
(* the server as the answers of its requests.                              *)
(***************************************************************************)
\* analysisResult: null
NoResult == [kind |-> "none", path |-> None]

\* the state of the component when it is mounted.  listed is
\* files.length > 0; loading is fetchFilesMutation.isPending or
\* isExplorerLoading; filePending is the file whose analysis is in flight
\* (analyzeFileMutation.isPending); repoPending is analyzeRepoMutation.isPending
IdleExplorer ==
    [listed |-> FALSE, loading |-> FALSE, selectedFile |-> None,
     analysisResult |-> NoResult, filePending |-> None, repoPending |-> FALSE]

\* the files of the listings
ExplorerFiles == {"a.ts", "b.ts", "c.ts"}

\* the file list and the analysis panel are rendered
Visible == explorer.listed /\ ~explorer.loading

\* the analysis panel shows analysisResult
Displayed ==
    /\ Visible
    /\ explorer.filePending = None /\ ~explorer.repoPending
    /\ explorer.analysisResult # NoResult

\* loadFiles(path), from Explore Files, a directory or a breadcrumb: the
\* selection and the result are cleared and the listing is fetched
LoadFiles ==
    /\ ~explorer.loading
    /\ explorer' = [explorer EXCEPT !.selectedFile = None, !.analysisResult = NoResult,
                                    !.loading = TRUE]
    /\ UNCHANGED <<repositories, github, apiKey, req>>

\* the listing request settles: setFiles(data) on success, a toast on error
FilesSettled ==
    /\ explorer.loading
    /\ \/ \E listed \in BOOLEAN :
             explorer' = [explorer EXCEPT !.loading = FALSE, !.listed = listed]
       \/ explorer' = [explorer EXCEPT !.loading = FALSE]
    /\ UNCHANGED <<repositories, github, apiKey, req>>

\* handleFileClick(file) for a file: it is selected and the result cleared
HandleFileClick(path) ==
    /\ Visible
    /\ explorer' = [explorer EXCEPT !.selectedFile = path, !.analysisResult = NoResult]
    /\ UNCHANGED <<repositories, github, apiKey, req>>

\* handleAnalyzeClick: the button is disabled while an analysis is pending
HandleAnalyzeClick ==
    /\ Visible
    /\ explorer.selectedFile # None /\ explorer.filePending = None
    /\ explorer' = [explorer EXCEPT !.filePending = explorer.selectedFile]
    /\ UNCHANGED <<repositories, github, apiKey, req>>

\* the analysis request settles: onSuccess sets the result, onError shows a
\* toast
AnalyzeFileSettled ==
    /\ explorer.filePending # None
    /\ \/ explorer' = [explorer EXCEPT !.filePending = None,
                          !.analysisResult = [kind |-> "file", path |-> explorer.filePending]]
       \/ explorer' = [explorer EXCEPT !.filePending = None]
    /\ UNCHANGED <<repositories, github, apiKey, req>>

\* handleAnalyzeRepositoryClick: the button is rendered when no analysis is
\* pending and no result is shown
HandleAnalyzeRepositoryClick ==
    /\ Visible
    /\ explorer.filePending = None /\ ~explorer.repoPending
    /\ explorer.analysisResult = NoResult
    /\ explorer' = [explorer EXCEPT !.analysisResult = NoResult, !.repoPending = TRUE]
    /\ UNCHANGED <<repositories, github, apiKey, req>>

\* the whole-repository analysis settles
AnalyzeRepoSettled ==
    /\ explorer.repoPending
    /\ \/ explorer' = [explorer EXCEPT !.repoPending = FALSE,
                          !.analysisResult = [kind |-> "repo", path |-> None]]
       \/ explorer' = [explorer EXCEPT !.repoPending = FALSE]
    /\ UNCHANGED <<repositories, github, apiKey, req>>

NextExplorer ==
    \/ LoadFiles
    \/ FilesSettled
    \/ \E path \in ExplorerFiles : HandleFileClick(path)
    \/ HandleAnalyzeClick
    \/ AnalyzeFileSettled
    \/ HandleAnalyzeRepositoryClick
    \/ AnalyzeRepoSettled

(***************************************************************************)
(* The URLs of the model.                                                  *)
(***************************************************************************)
GithubHead == <<"https:", Slash, Slash, "github.com">>

\* the URLs the requests of Spec carry
SampleUrls ==
    { GithubHead \o <<Slash, "Foo", Slash, "bar">>,
      GithubHead \o <<Slash, "foo", Slash, "bar">>,
      GithubHead \o <<Slash, "Foo", Slash, "qux">>,
      GithubHead,
      <<"github.com", Slash, "Foo", Slash, "bar">> }

\* the URLs of SpecUrl: a head, up to MaxSegs path segments, trailing slashes
UrlHeads ==
    { GithubHead, <<"https:", Slash, Slash, "example.com">>, <<"github.com">> }

UrlSegments == {"Foo", "foo", "bar", "qux", "github.com"}

RECURSIVE UrlPaths(_)
UrlPaths(n) ==
    IF n = 0 THEN {<<>>}
    ELSE {p \o <<Slash, seg>> : p \in UrlPaths(n - 1), seg \in UrlSegments}

UrlTails == {<<>>, <<Slash>>, <<Slash, Slash>>}

Urls ==
    {h \o p \o t : h \in UrlHeads,
                   p \in UNION {UrlPaths(n) : n \in 0..MaxSegs},
                   t \in UrlTails}

Init ==
    /\ repositories = <<>>
    /\ github = [k \in RepoKeys |-> 1]
    /\ apiKey = TRUE
    /\ req = [r \in Requests |-> IdleRequest]
    /\ explorer = IdleExplorer

Next ==
    \/ \E r \in Requests, u \in SampleUrls : AnalyzeReceive(r, u)
    \/ \E r \in Requests : AnalyzeRepoInfo(r)
    \/ \E r \in Requests : AnalyzeLanguages(r)
    \/ \E r \in Requests : AnalyzeCommits(r)
    \/ \E k \in RepoKeys : ProviderRecreate(k)

Spec == Init /\ [][Next]_vars

\* the behaviours of Spec in which the requests do not overlap: each arrives
\* after the earlier ones were answered
AnalyzeReceiveSeq(r, u) == Quiet /\ AnalyzeReceive(r, u)

NextSeq ==
    \/ \E r \in Requests, u \in SampleUrls : AnalyzeReceiveSeq(r, u)
    \/ \E r \in Requests : AnalyzeRepoInfo(r)
    \/ \E r \in Requests : AnalyzeLanguages(r)
    \/ \E r \in Requests : AnalyzeCommits(r)
    \/ \E k \in RepoKeys : ProviderRecreate(k)

SpecSeq == Init /\ [][NextSeq]_vars

\* one ingestion, for every URL of Urls
NextUrl ==
    \/ \E u \in Urls : AnalyzeReceive(1, u)
    \/ AnalyzeRepoInfo(1)
    \/ AnalyzeLanguages(1)
    \/ AnalyzeCommits(1)

SpecUrl == Init /\ [][NextUrl]_vars

\* the seconds of a minute, an hour, a day, 30 days and 12 times 30 days
UnitSeconds == {60, 60 * 60, 24 * 60 * 60, 30 * 24 * 60 * 60, 12 * 30 * 24 * 60 * 60}

\* the ages of the last update in SpecTime: the multiples of each unit, and
\* the second before and after each
ElapsedTimes ==
    {0, 1} \cup {k * u + d : k \in 1..MaxCount, u \in UnitSeconds, d \in {-1, 0, 1}}

\* one ingestion of Foo/bar, for every age of ElapsedTimes
NextTime ==
    \/ AnalyzeReceive(1, GithubHead \o <<Slash, "Foo", Slash, "bar">>)
    \/ \E elapsed \in ElapsedTimes : AnalyzeRepoInfoAt(1, elapsed)
    \/ AnalyzeLanguages(1)
    \/ AnalyzeCommits(1)

SpecTime == Init /\ [][NextTime]_vars

\* the stargazers_count values of SpecNumbers: the limits of the ranges, the
\* values of the examples, and values half-way between two tenths
StarCounts ==
    {0, 1, 999, 1000, 1001, 999949, 999950, 999999, 1000000, 2500000}
    \cup {1000 + 50 * k : k \in 0..MaxTies}
    \cup {1000000 + 50000 * k : k \in 0..MaxTies}

LanguageNames == <<"TypeScript", "Zig", "Go", "C", "Rust">>

ByteCounts == {0, 1, 3}

\* the byte-maps of SpecNumbers: up to MaxLangs languages, among them the
\* empty map and maps whose byte counts are all 0
LanguageMaps ==
    {[i \in 1..Len(bytes) |-> [name |-> LanguageNames[i], bytes |-> bytes[i]]] :
        bytes \in UNION {[1..n -> ByteCounts] : n \in 0..MaxLangs}}

\* a weekly series whose totals grow faster than those of WeekSeries
SteepSeries(n) == [i \in 1..n |-> [week |-> NowWeek - n + i, total |-> i * i]]

\* the commit_activity answers of SpecNumbers: series of 0..MaxSeries weeks,
\* an empty body, a non-array object
SeriesAnswers ==
    CommitShapes(0..MaxSeries)
    \cup {[shape |-> "array", weeks |-> SteepSeries(n)] : n \in 1..MaxSeries}

\* one ingestion of Foo/bar, for every star count, byte-map and series
NextNumbers ==
    \/ AnalyzeReceive(1, GithubHead \o <<Slash, "Foo", Slash, "bar">>)
    \/ \E stars \in StarCounts : AnalyzeRepoInfoOf(1, SampleElapsed, stars)
    \/ \E langs \in LanguageMaps : AnalyzeLanguagesOf(1, langs)
    \/ AnalyzeCommitsFrom(1, SeriesAnswers)

SpecNumbers == Init /\ [][NextNumbers]_vars

\* the record that the ingestion of Foo/bar leaves in the cache
IngestedRecord ==
    RepositoryData([id |-> 1, full_name |-> CanonicalName(<<"foo", "bar">>),
                    language |-> "TypeScript", elapsed |-> SampleElapsed,
                    stars |-> SampleStars, languages |-> LanguagesData],
                   LanguagesData, [shape |-> "array", weeks |-> WeekSeries(MaxWeeks)], 70)

\* the ids and the file paths that the analysis requests carry
RepositoryIds == {"1", "7", ""}

FilePaths == {<<"src", Slash, "app", ".ts">>, <<>>}

\* the ids of the README requests: the cached repository and an unknown one
ReadmeIds == {"1", "7"}

\* the server after one ingestion, with or without the credential
InitAnalysis ==
    /\ repositories = <<IngestedRecord>>
    /\ github = [k \in RepoKeys |-> 1]
    /\ apiKey \in BOOLEAN
    /\ req = [r \in Requests |-> IdleRequest]
    /\ explorer = IdleExplorer

FileReceiveSeq(r, id, path) == Quiet /\ FileReceive(r, id, path)

RepoReceiveSeq(r, id) == Quiet /\ RepoReceive(r, id)

ReadmeReceiveSeq(r, id, options) == Quiet /\ ReadmeReceive(r, id, options)

\* the analysis and README requests, one after another
NextAnalysis ==
    \/ \E r \in Requests, id \in RepositoryIds, path \in FilePaths :
          FileReceiveSeq(r, id, path)
    \/ \E r \in Requests, id \in RepositoryIds : RepoReceiveSeq(r, id)
    \/ \E r \in Requests, id \in ReadmeIds : ReadmeReceiveSeq(r, id, NoOptions)
    \/ \E r \in Requests : FileContents(r)
    \/ \E r \in Requests : FileTree(r)
    \/ \E r \in Requests : RepoTree(r)
    \/ \E r \in Requests : RepoFile(r)
    \/ \E r \in Requests : Completion(r)

SpecAnalysis == InitAnalysis /\ [][NextAnalysis]_vars

FilesReceiveSeq(r, owner, repo) == Quiet /\ FilesReceive(r, owner, repo)

\* the URLs of the ingestions of SpecEndpoints: the provider's repository,
\* and a URL without owner and name
EndpointUrls == {GithubHead \o <<Slash, "Foo", Slash, "bar">>, GithubHead}

\* every endpoint on a server that starts with an empty cache, the requests
\* one after another
NextEndpoints ==
    \/ \E r \in Requests, u \in EndpointUrls : AnalyzeReceiveSeq(r, u)
    \/ \E r \in Requests : AnalyzeRepoInfo(r)
    \/ \E r \in Requests : AnalyzeLanguages(r)
    \/ \E r \in Requests : AnalyzeCommits(r)
    \/ \E r \in Requests : FilesReceiveSeq(r, <<"Foo">>, <<"bar">>)
    \/ \E r \in Requests : FilesContents(r)
    \/ \E r \in Requests, id \in RepositoryIds, path \in FilePaths :
          FileReceiveSeq(r, id, path)
    \/ \E r \in Requests, id \in RepositoryIds : RepoReceiveSeq(r, id)
    \/ \E r \in Requests, id \in ReadmeIds : ReadmeReceiveSeq(r, id, NoOptions)
    \/ \E r \in Requests : FileContents(r)
    \/ \E r \in Requests : FileTree(r)
    \/ \E r \in Requests : RepoTree(r)
    \/ \E r \in Requests : RepoFile(r)
    \/ \E r \in Requests : Completion(r)

SpecEndpoints == Init /\ [][NextEndpoints]_vars

\* the ids of the lookups of SpecLookup: every id the provider may assign
LookupIds == {ToString(i) : i \in 1..MaxId}

\* the URLs of the ingestions of SpecLookup: two spellings of the repository
LookupUrls ==
    {GithubHead \o <<Slash, "Foo", Slash, "bar">>, GithubHead \o <<Slash, "foo", Slash, "bar">>}

\* ingestions of a repository that the provider may re-create, and lookups
\* by id on the three endpoints, the requests one after another
NextLookup ==
    \/ \E r \in Requests, u \in LookupUrls : AnalyzeReceiveSeq(r, u)
    \/ \E r \in Requests : AnalyzeRepoInfo(r)
    \/ \E r \in Requests : AnalyzeLanguages(r)
    \/ \E r \in Requests : AnalyzeCommits(r)
    \/ \E k \in RepoKeys : ProviderRecreate(k)
    \/ \E r \in Requests, id \in LookupIds : ReadmeReceiveSeq(r, id, NoOptions)
    \/ \E r \in Requests, id \in LookupIds :
          FileReceiveSeq(r, id, <<"src", Slash, "app", ".ts">>)
    \/ \E r \in Requests, id \in LookupIds : RepoReceiveSeq(r, id)
    \/ \E r \in Requests : FileContents(r)
    \/ \E r \in Requests : FileTree(r)
    \/ \E r \in Requests : RepoTree(r)
    \/ \E r \in Requests : RepoFile(r)
    \/ \E r \in Requests : Completion(r)

SpecLookup == Init /\ [][NextLookup]_vars

SpecExplorer == Init /\ [][NextExplorer]_vars

\* the values of a flag in a request body
FlagValues == {"true", "false", "absent", "null"}

\* the sections of the customSections lists: complete ones, one without a
\* title, one without a content
SectionPool ==
    { [title |-> "Notes", content |-> "x"], [title |-> "More", content |-> "z"],
      [title |-> "", content |-> "y"], [title |-> "Extra", content |-> ""] }

\* customSections: absent, null, or a list of up to MaxSections sections
SectionLists ==
    {NoSections, [kind |-> "null", items |-> <<>>]}
    \cup {[kind |-> "list", items |-> items] :
             items \in UNION {[1..n -> SectionPool] : n \in 0..MaxSections}}

\* the option objects of SpecReadme: every combination of the flags without
\* custom sections and with one, and every customSections with the default
\* flags and with the License section switched on and off
ReadmeOptions ==
    [includeInstallation : FlagValues, includeUsage : FlagValues,
     includeContributing : FlagValues, includeLicense : FlagValues,
     customSections : {NoSections,
                       [kind |-> "list", items |-> <<[title |-> "Notes", content |-> "x"]>>]}]
    \cup {[NoOptions EXCEPT !.includeLicense = license, !.customSections = sections] :
             license \in {"absent", "true", "false"}, sections \in SectionLists}

\* one README request, for every option object
NextReadme ==
    \E id \in ReadmeIds, options \in ReadmeOptions : ReadmeReceive(1, id, options)

SpecReadme == InitAnalysis /\ [][NextReadme]_vars

\* the entries that the trees of SpecSample are made of: code files of
\* several lengths, files of excluded directories, a bundled file, a
\* directory
TreePool ==
    << [type |-> "blob", path |-> <<"src", Slash, "a", ".ts">>, size |-> 1200],
       [type |-> "blob", path |-> <<"node_modules", Slash, "x", ".js">>, size |-> 10],
       [type |-> "blob", path |-> <<"src", Slash, "b", ".py">>, size |-> 1000],
       [type |-> "blob", path |-> <<"lib", Slash, "jquery", ".MIN", ".js">>, size |-> 10],
       [type |-> "blob", path |-> <<"src", Slash, "c", ".js">>, size |-> 1001],
       [type |-> "blob", path |-> <<"src", Slash, "vendor", Slash, "d", ".go">>, size |-> 10],
       [type |-> "blob", path |-> <<"e", ".rb">>, size |-> 0],
       [type |-> "blob", path |-> <<"f", ".c">>, size |-> 10],
       [type |-> "blob", path |-> <<"g", ".java">>, size |-> 10],
       [type |-> "tree", path |-> <<"src">>, size |-> 0],
       [type |-> "blob", path |-> <<"README", ".md">>, size |-> 10] >>

\* the entries of the pool with these indices, in the pool's order
PoolTree(indices) ==
    LET upTo[n \in 0..Len(TreePool)] ==
            IF n = 0 THEN <<>>
            ELSE IF n \in indices THEN Append(upTo[n - 1], TreePool[n])
            ELSE upTo[n - 1]
    IN  upTo[Len(TreePool)]

\* the trees the provider answers with in SpecSample
Trees == {PoolTree(indices) : indices \in SUBSET (1..MaxTree)}

\* one whole-repository analysis of the cached repository, for every tree
NextSample ==
    \/ RepoReceive(1, "1")
    \/ \E tree \in Trees : RepoTreeOf(1, tree)
    \/ RepoFile(1)
    \/ Completion(1)

SpecSample == InitAnalysis /\ [][NextSample]_vars

(***************************************************************************)
(* Properties of POST /api/analyze and the cache.                          *)
(***************************************************************************)
\* the cache key `${owner}/${repo}` of a URL
UrlKey(u) == FullNameOf(UrlOwner(u), UrlRepo(u))

\* r is received in this step
Arrives(r) == req[r].pc = "idle" /\ req'[r].pc # "idle"

\* C1: a request for a key that an earlier request has already ingested
\* successfully is answered from the cache: it issues no provider call and
\* returns the record the earlier request returned.
C1_SecondIngestionFromCache ==
    [][\A r, q \in Requests :
          (/\ Arrives(r)
           /\ req'[r].kind = "analyze" /\ UrlViolation(req'[r].url) = <<>>
           /\ req[q].kind = "analyze" /\ req[q].pc = "done"
           /\ req[q].response.status = 200
           /\ UrlKey(req[q].url) = UrlKey(req'[r].url))
          => (/\ req'[r].pc = "done"
              /\ req'[r].calls = <<>>
              /\ req'[r].response = req[q].response)]_vars

\* C2: a record that is in the cache never changes afterwards.
C2_CachedRecordImmutable ==
    [][\A i \in 1..Len(repositories) :
          /\ Len(repositories') >= i
          /\ repositories'[i] = repositories[i]]_vars

\* C3: no two cached records carry the same fullName.
C3_FullNameUnique ==
    \A i, j \in 1..Len(repositories) :
        i # j => repositories[i].fullName # repositories[j].fullName

\* C6: every record produced by ingestion has exactly 7 commitActivity
\* entries.
C6_SevenCommitEntries ==
    \A r \in Requests :
        (req[r].kind = "analyze" /\ req[r].pc = "done" /\ req[r].response.status = 200)
        => Len(req[r].response.record.commitActivity) = 7

\* the provider calls of an ingestion, in the order of the code
IngestionCalls == <<"repo", "languages", "commit_activity">>

\* C7: an ingestion whose provider call failed with a response answers with
\* the upstream status and the upstream message; it has called each endpoint
\* at most once, in order, up to the failed call, and calls nothing afterwards.
C7_ProviderErrorMirrored ==
    [][\A r \in Requests :
          /\ (req'[r].kind = "analyze" /\ req'[r].pc = "done" /\ req'[r].error.kind = "http")
             => /\ req'[r].response.status = req'[r].error.status
                /\ req'[r].error.message # None
                   => req'[r].response.message = <<"GitHub API error: ", req'[r].error.message>>
                /\ Len(req'[r].calls) \in 1..3
                /\ req'[r].calls = SubSeq(IngestionCalls, 1, Len(req'[r].calls))
          /\ req[r].pc = "done" => req'[r] = req[r]]_vars

\* r fetched its record from the provider, under the key of its URL
Ingested(r) ==
    /\ req[r].kind = "analyze" /\ req[r].pc = "done" /\ req[r].response.status = 200
    /\ req[r].calls # <<>>
    /\ req[r].response.record.fullName = UrlKey(req[r].url)

\* C14: when two overlapping requests for the same URL both missed the cache
\* and the provider gave both the same answers, the cache holds exactly one
\* record for the key, and it is the record that each of the two received.
C14_RaceLeavesEquivalentRecord ==
    \A r, q \in Requests :
        (/\ r # q /\ Ingested(r) /\ Ingested(q)
         /\ req[r].url = req[q].url
         /\ req[r].response.record.id = req[q].response.record.id
         /\ req[r].response.record.commitActivity = req[q].response.record.commitActivity)
        => LET key == UrlKey(req[r].url) IN
           /\ Cardinality({i \in 1..Len(repositories) : repositories[i].fullName = key}) = 1
           /\ req[r].response.record = GetRepositoryByFullName(key)
           /\ req[q].response.record = GetRepositoryByFullName(key)

(***************************************************************************)
(* Properties of the URL handling of POST /api/analyze.                    *)
(***************************************************************************)
\* C4: a URL whose owner or name segment is empty, or whose host is not
\* github.com, is answered with 400 and no provider call.
C4_InvalidUrlRejected ==
    \A r \in Requests :
        (/\ req[r].kind = "analyze"
         /\ \/ UrlOwner(req[r].url) = <<>>
            \/ UrlRepo(req[r].url) = <<>>
            \/ UrlHost(req[r].url) # "github.com")
        => (req[r].pc = "done" /\ req[r].response.status = 400 /\ req[r].calls = <<>>)

\* a URL of the form scheme://host/owner/repo, without a trailing slash
IsHostOwnerRepo(u) ==
    /\ IsUrl(u) /\ IncludesGithub(u)
    /\ Len(u) = 8
    /\ u[5] = Slash /\ u[6] # Slash /\ u[7] = Slash /\ u[8] # Slash

\* C5: the owner and the name the handler extracts from a host/owner/repo
\* URL are those of the same URL with a trailing slash, and the other way
\* round, so both spellings give the same cache key.
C5_TrailingSlashSamePair ==
    \A r \in Requests :
        req[r].pc \notin {"idle", "done"} =>
            /\ IsHostOwnerRepo(req[r].url) =>
                  /\ req[r].owner = UrlOwner(req[r].url \o <<Slash>>)
                  /\ req[r].repo = UrlRepo(req[r].url \o <<Slash>>)
                  /\ req[r].owner = <<req[r].url[6]>>
                  /\ req[r].repo = <<req[r].url[8]>>
            /\ \A v \in Urls :
                  (IsHostOwnerRepo(v) /\ req[r].url = v \o <<Slash>>) =>
                      /\ req[r].owner = UrlOwner(v)
                      /\ req[r].repo = UrlRepo(v)
                      /\ FullNameOf(req[r].owner, req[r].repo) = UrlKey(v)

\* an ingestion of a URL with a trailing slash has passed the URL handling
\* with the owner and the name of the URL without it
C5_Witness ==
    \E r \in Requests :
        /\ req[r].pc = "repoInfo"
        /\ req[r].url = GithubHead \o <<Slash, "Foo", Slash, "bar", Slash>>
        /\ req[r].owner = <<"Foo">> /\ req[r].repo = <<"bar">>

(***************************************************************************)
(* Properties of analyzeCode and of the analysis endpoints.                *)
(***************************************************************************)
\* the error analyzeCode throws when the provider could not be reached
TransportFailure ==
    AnalyzeCodeResult([kind |-> "network", status |-> 0, message |-> None,
                       choices |-> <<>>]).error

\* the Completion Provider answered r without a choice
AnsweredWithoutChoice(r) ==
    /\ req[r].kind \in {"file", "repo"} /\ req[r].pc = "done"
    /\ req[r].completion.kind \in {"choices", "nochoices"}
    /\ req[r].completion.choices = <<>>

\* C8: an answer without a choice makes analyzeCode fail with the
\* no-completion error, which differs from the error of a transport failure.
C8_NoCompletionDistinct ==
    \A r \in Requests :
        AnsweredWithoutChoice(r) =>
            /\ req[r].error.message = "No response from OpenRouter API"
            /\ req[r].error # TransportFailure

\* the handler of r has called analyzeCode and has returned
CalledAnalyzeCode(r) ==
    /\ req[r].kind \in {"file", "repo"} /\ req[r].pc = "done"
    /\ req[r].prompt # NoPrompt

\* C9: without the credential no request ever calls the Completion
\* Provider, and every call of analyzeCode fails with 'not configured'.
C9_MissingKeyNoCall ==
    ~apiKey =>
        \A r \in Requests :
            /\ \A i \in 1..Len(req[r].calls) : req[r].calls[i] # "completion"
            /\ req[r].completion = NoCompletion
            /\ CalledAnalyzeCode(r) =>
                  /\ req[r].error = PlainError("OpenRouter API key is not configured", None)
                  /\ req[r].response.status = 500

\* without the credential a request failed with 'not configured', and the
\* request that came after it was handled, and failed the same way
C9_Witness ==
    /\ ~apiKey
    /\ \E r, q \in Requests :
          /\ r < q
          /\ CalledAnalyzeCode(r) /\ CalledAnalyzeCode(q)
          /\ req[r].kind = "file" /\ req[q].kind = "repo"
          /\ req[q].error = PlainError("OpenRouter API key is not configured", None)
          /\ req[r].response.status = 500

\* C10: on the analysis endpoints an upstream error response of either
\* provider is answered with its status and message; only a failure without
\* an upstream response is answered with the generic 500.
C10_UpstreamErrorPassedThrough ==
    \A r \in Requests :
        (req[r].kind \in {"file", "repo"} /\ req[r].pc = "done") =>
            /\ (req[r].error.kind = "http" /\ req[r].error.message # Null) =>
                  /\ req[r].response.status = req[r].error.status
                  /\ req[r].error.message # None =>
                        req[r].response.message = <<"GitHub API error: ", req[r].error.message>>
            /\ (req[r].completion.kind = "http" /\ req[r].completion.message # Null) =>
                  /\ req[r].response.status = req[r].completion.status
                  /\ Len(req[r].response.message) = 2
                  /\ req[r].response.message[2] = req[r].completion.message

\* the cache holds a record under this id
Cached(id) == \E i \in 1..Len(repositories) : repositories[i].id = id

\* r was answered with this status and message before any provider call
RejectedWith(r, status, message) ==
    /\ req[r].pc = "done"
    /\ req[r].response.status = status /\ req[r].response.message = message
    /\ req[r].calls = <<>>
    /\ req[r].prompt = NoPrompt /\ req[r].completion = NoCompletion

\* C18: an analysis request with an empty repositoryId or an empty filePath
\* is answered with 400 and the message of the first violation, one with a
\* well-formed body and an id that is not cached with 404, both without any
\* provider call; a README request is answered with 404 exactly when its id
\* is not cached.
C18_RejectedBeforeAnyCall ==
    \A r \in Requests :
        /\ req[r].kind \in {"file", "repo"} =>
              /\ req[r].repositoryId = "" =>
                    RejectedWith(r, 400, <<"Repository ID is required">>)
              /\ (req[r].kind = "file" /\ req[r].repositoryId # "" /\ req[r].filePath = <<>>) =>
                    RejectedWith(r, 400, <<"File path is required">>)
              /\ (/\ req[r].repositoryId # ""
                  /\ req[r].kind = "file" => req[r].filePath # <<>>
                  /\ ~Cached(req[r].repositoryId)) =>
                    RejectedWith(r, 404, <<"Repository not found">>)
        /\ (req[r].kind = "readme" /\ req[r].pc = "done") =>
              (req[r].response.status = 404 <=> ~Cached(req[r].repositoryId))

\* a file analysis with both fields empty was rejected with the message of
\* the repositoryId, and a whole-repository analysis of an unknown id with
\* 404, both without a provider call
C18_Witness ==
    \E r, q \in Requests :
        /\ req[r].kind = "file" /\ req[r].repositoryId = "" /\ req[r].filePath = <<>>
        /\ RejectedWith(r, 400, <<"Repository ID is required">>)
        /\ req[q].kind = "repo" /\ req[q].repositoryId = "7"
        /\ RejectedWith(q, 404, <<"Repository not found">>)

\* C11: every request that fails ends with a response that has a status
\* code of the 4xx or 5xx range and a message, whatever the upstream failure
\* was: an error response with a message, with an empty body or with the body
\* null, no response, or a file-content answer without a content field.
C11_EveryFailureAnswered ==
    \A r \in Requests :
        (req[r].pc = "done" /\ req[r].response.status # 200) =>
            /\ req[r].response.status \in 400..599
            /\ req[r].response.message # <<>>

(***************************************************************************)
(* Properties of getRelativeTimeString.                                    *)
(***************************************************************************)
\* the ingestion r builds its record in this step
BuildsRecord(r) ==
    /\ req[r].kind = "analyze" /\ req[r].pc = "commits"
    /\ req'[r].pc = "done" /\ req'[r].response.status = 200

\* C19: the relative time of an age of s seconds is 'just now' for s < 60,
\* floor(s/60) minutes for s < 3600, hours for s < 86400, days for
\* s < 30*86400, floor(days/30) months for s < 12*30*86400, and
\* floor(months/12) years otherwise; 59 s is 'just now', 60 s 1 minute,
\* 3599 s 59 minutes, 3600 s 1 hour, 86399 s 23 hours, 30 days 1 month.
C19_RelativeTimeThresholds ==
    [][\A r \in Requests :
          BuildsRecord(r) =>
              LET s == req[r].info.elapsed
                  t == req'[r].response.record.lastUpdated
                  days == s \div 86400
                  Is(n, unit) == t.count = n /\ t.unit = unit
              IN  /\ s < 60 => t.unit = "just now"
                  /\ (60 <= s /\ s < 3600) => Is(s \div 60, "minute")
                  /\ (3600 <= s /\ s < 86400) => Is(s \div 3600, "hour")
                  /\ (86400 <= s /\ s < 30 * 86400) => Is(days, "day")
                  /\ (30 * 86400 <= s /\ s < 12 * 30 * 86400) => Is(days \div 30, "month")
                  /\ 12 * 30 * 86400 <= s => Is((days \div 30) \div 12, "year")
                  /\ s = 59 => t.unit = "just now"
                  /\ s = 60 => Is(1, "minute")
                  /\ s = 3599 => Is(59, "minute")
                  /\ s = 3600 => Is(1, "hour")
                  /\ s = 86399 => Is(23, "hour")
                  /\ s = 30 * 86400 => Is(1, "month")]_vars

\* an ingestion has built the record of a repository updated exactly 30 days
\* before
C19_Witness ==
    \E r \in Requests :
        /\ req[r].kind = "analyze" /\ req[r].pc = "done" /\ req[r].response.status = 200
        /\ req[r].calls # <<>>
        /\ req[r].response.record.lastUpdated.count = 1
        /\ req[r].response.record.lastUpdated.unit = "month"

\* C20: a relative time that carries a count N has the plural "s" exactly
\* when N # 1, in every record returned or cached.
C20_PluralUnlessOne ==
    /\ \A r \in Requests :
          (req[r].response.status = 200 /\ req[r].response.record.lastUpdated.unit # "just now")
              => (req[r].response.record.lastUpdated.plural
                     <=> req[r].response.record.lastUpdated.count # 1)
    /\ \A i \in 1..Len(repositories) :
          repositories[i].lastUpdated.unit # "just now"
              => (repositories[i].lastUpdated.plural <=> repositories[i].lastUpdated.count # 1)

\* an ingestion has returned a record with the relative time 1 year ago
C20_Witness ==
    \E r \in Requests :
        /\ req[r].response.status = 200
        /\ req[r].response.record.lastUpdated = [count |-> 1, unit |-> "year", plural |-> FALSE]

(***************************************************************************)
(* Properties of the whole-repository sample.                              *)
(***************************************************************************)
\* the handler of r has left the sampling loop and has called analyzeCode
Sampled(r) == req[r].kind = "repo" /\ req[r].prompt # NoPrompt

\* the size of the tree's file with this path
SizeIn(tree, path) ==
    tree[CHOOSE i \in 1..Len(tree) : tree[i].path = path].size

\* C12: the sample has at most 5 files, none under node_modules/ or vendor/
\* and none with .min. / .bundle. / .compiled. in its path; a content longer
\* than 1000 characters is cut to 1000 and followed by the ellipsis, a
\* shorter one is whole and has no ellipsis.
C12_SampleBounded ==
    \A r \in Requests :
        Sampled(r) =>
            LET sample == req[r].prompt.codeContent IN
            /\ Len(sample) <= 5
            /\ \A i \in 1..Len(sample) :
                  LET path == sample[i].path
                      size == SizeIn(req[r].tree, path)
                  IN  /\ \A j \in 1..(Len(path) - 1) :
                            ~(path[j] \in {"node_modules", "vendor"} /\ path[j + 1] = Slash)
                      /\ \A j \in 1..Len(path) :
                            path[j] \notin {".min", ".bundle", ".compiled", ".MIN", ".Bundle"}
                      /\ size > 1000 => (sample[i].shown = 1000 /\ sample[i].ellipsis)
                      /\ size <= 1000 => (sample[i].shown = size /\ ~sample[i].ellipsis)

\* a tree with more than 5 code files was sampled: 5 files, the first one cut
C12_Witness ==
    \E r \in Requests :
        /\ Sampled(r)
        /\ Len(SelectSeq(req[r].tree, LAMBDA item : item.path[Len(item.path)] \in ImportantFileExtensions)) > 6
        /\ Len(req[r].prompt.codeContent) = 5
        /\ req[r].prompt.codeContent[1].ellipsis
        /\ ~req[r].prompt.codeContent[2].ellipsis

\* the entries of sample are entries of files, in the order of files
RECURSIVE IsSampleOf(_, _)
IsSampleOf(sample, files) ==
    IF sample = <<>> THEN TRUE
    ELSE IF files = <<>> THEN FALSE
    ELSE IF Head(sample) = SampleEntry(Head(files))
         THEN IsSampleOf(Tail(sample), Tail(files))
         ELSE IsSampleOf(sample, Tail(files))

\* the provider calls of a whole-repository analysis that has fetched n files
SamplingCalls(n) == <<"tree">> \o [i \in 1..n |-> "contents"]

\* C13: a failed file fetch skips only that file: every selected file is
\* fetched, in tree order, analyzeCode is called with the files that
\* succeeded, the Completion Provider is called once, and no request ends in
\* the loop.
C13_FileFailureIsolated ==
    \A r \in Requests :
        req[r].kind = "repo" =>
            LET codeFiles == CodeFiles(req[r].tree)
                fetched == Len(codeFiles) - Len(req[r].files)
            IN  /\ req[r].pc = "files" =>
                      /\ req[r].files # <<>>
                      /\ req[r].files = SubSeq(codeFiles, fetched + 1, Len(codeFiles))
                      /\ req[r].calls = SamplingCalls(fetched + 1)
                      /\ IsSampleOf(req[r].sampleCode, SubSeq(codeFiles, 1, fetched))
                /\ Sampled(r) =>
                      /\ IsSampleOf(req[r].prompt.codeContent, codeFiles)
                      /\ req[r].calls = SamplingCalls(Len(codeFiles))
                                          \o (IF apiKey THEN <<"completion">> ELSE <<>>)
                /\ (req[r].pc = "done" /\ Len(req[r].calls) > 1) => Sampled(r)

\* analyzeCode was called with the first and the third of three selected
\* files, after the fetch of the second one failed
C13_Witness ==
    \E r \in Requests :
        LET codeFiles == CodeFiles(req[r].tree) IN
        /\ Sampled(r) /\ req[r].pc = "completion"
        /\ Len(codeFiles) = 3
        /\ req[r].prompt.codeContent = <<SampleEntry(codeFiles[1]), SampleEntry(codeFiles[3])>>

(***************************************************************************)
(* Properties of the README generation.                                    *)
(***************************************************************************)
\* r is a README request that was answered with a document
Generated(r) ==
    req[r].kind = "readme" /\ req[r].pc = "done" /\ req[r].response.status = 200

\* the positions in the document of r of the blocks headed ## title
Headed(r, title) ==
    {i \in 1..Len(req[r].response.content) :
        req[r].response.content[i].heading = <<"## ", title>>}

\* the flag of r's options for each standard section
FlagOf(r) ==
    [Installation |-> req[r].options.includeInstallation,
     Usage |-> req[r].options.includeUsage,
     Contributing |-> req[r].options.includeContributing,
     License |-> req[r].options.includeLicense]

\* C15: the document has the Installation, Usage, Contributing and License
\* heading, once and with its block, exactly when that section's flag is
\* true or absent, and has neither heading nor block when the flag is false,
\* whatever the other flags are.
C15_FlagsSelectSections ==
    \A r \in Requests :
        Generated(r) =>
            \A title \in {"Installation", "Usage", "Contributing", "License"} :
                /\ FlagOf(r)[title] \in {"true", "absent"} =>
                      /\ Cardinality(Headed(r, title)) = 1
                      /\ \A i \in Headed(r, title) : req[r].response.content[i].body # <<>>
                /\ FlagOf(r)[title] = "false" => Headed(r, title) = {}

\* a document with the Installation block (flag absent) and the Contributing
\* block (flag true), without Usage and License (flags false)
C15_Witness ==
    \E r \in Requests :
        /\ Generated(r)
        /\ req[r].options.includeInstallation = "absent"
        /\ req[r].options.includeUsage = "false"
        /\ req[r].options.includeContributing = "true"
        /\ req[r].options.includeLicense = "false"
        /\ Headed(r, "Installation") # {} /\ Headed(r, "Contributing") # {}
        /\ Headed(r, "Usage") = {} /\ Headed(r, "License") = {}

\* the sections of r's customSections list
CustomSectionsOf(r) ==
    IF req[r].options.customSections.kind = "list"
    THEN req[r].options.customSections.items ELSE <<>>

\* the document of r ends with these sections, each as ## title and its
\* content, in this order, after every standard section and before the footer
EndsWithSections(r, sections) ==
    LET content == req[r].response.content
        first == Len(content) - Len(sections)
    IN  /\ first >= 1
        /\ content[Len(content)].heading = <<"---">>
        /\ \A i \in 1..Len(sections) :
              /\ content[first - 1 + i].heading = <<"## ", sections[i].title>>
              /\ content[first - 1 + i].body = <<sections[i].content>>
        /\ \A title \in {"Installation", "Usage", "Contributing", "License"} :
              \A i \in Headed(r, title) : i < first

\* C16: every custom section of the list is appended, in list order, as a
\* ## title block with its content, after the standard sections and before
\* the footer.
C16_EveryCustomSectionAppended ==
    \A r \in Requests : Generated(r) => EndsWithSections(r, CustomSectionsOf(r))

\* C16, amended: the custom sections that have both a title and a content
\* are appended so; a section without a title or without a content is left
\* out, and a list of sections is never an error.
C16_CompleteCustomSectionsAppended ==
    \A r \in Requests :
        /\ Generated(r) =>
              EndsWithSections(r, SelectSeq(CustomSectionsOf(r),
                  LAMBDA section : section.title # "" /\ section.content # ""))
        /\ (req[r].kind = "readme" /\ req[r].pc = "done"
              /\ req[r].options.customSections.kind # "null"
              /\ \E i \in 1..Len(repositories) : repositories[i].id = req[r].repositoryId)
              => Generated(r)

\* a document for the list Notes, Extra without a content, More: the blocks
\* of Notes and More, in this order, right before the footer, and none of
\* Extra
C16_Witness ==
    \E r \in Requests :
        /\ Generated(r)
        /\ CustomSectionsOf(r) = <<[title |-> "Notes", content |-> "x"],
                                   [title |-> "Extra", content |-> ""],
                                   [title |-> "More", content |-> "z"]>>
        /\ Headed(r, "Extra") = {}
        /\ req[r].options.includeLicense = "true"
        /\ LET content == req[r].response.content IN
           /\ content[Len(content) - 2] = [heading |-> <<"## ", "Notes">>, body |-> <<"x">>]
           /\ content[Len(content) - 1] = [heading |-> <<"## ", "More">>, body |-> <<"z">>]

\* C17: a README request for a cached record succeeds with the content and
\* the filename README.md, whatever its options are.
C17_ReadmeNeverFails ==
    \A r \in Requests :
        (/\ req[r].kind = "readme" /\ req[r].pc = "done"
         /\ \E i \in 1..Len(repositories) : repositories[i].id = req[r].repositoryId)
            => (req[r].response.status = 200 /\ req[r].response.filename = "README.md")

(***************************************************************************)
(* Properties of the numbers of a record.                                  *)
(***************************************************************************)
\* C21: formatNumber gives, in tenths, the tenth nearest to n / 1000000 with
\* the suffix M for n >= 1000000, the tenth nearest to n / 1000 with the
\* suffix k for 1000 <= n < 1000000, and n itself without a suffix below
\* 1000; 999 gives 999, 1500 gives 1.5k and 2500000 gives 2.5M.
C21_MagnitudeFormat ==
    [][\A r \in Requests :
          BuildsRecord(r) =>
              LET n == req[r].info.stars
                  stars == req'[r].response.record.stars
                  Distance(a, b) == IF a < b THEN b - a ELSE a - b
                  Is(tenths, suffix) == stars = [tenths |-> tenths, suffix |-> suffix]
              IN  /\ n >= 1000000 =>
                        /\ stars.suffix = "M"
                        /\ 2 * Distance(10 * n, 1000000 * stars.tenths) <= 1000000
                  /\ (1000 <= n /\ n < 1000000) =>
                        /\ stars.suffix = "k"
                        /\ 2 * Distance(10 * n, 1000 * stars.tenths) <= 1000
                  /\ n < 1000 => Is(10 * n, "")
                  /\ n = 999 => Is(9990, "")
                  /\ n = 1500 => Is(15, "k")
                  /\ n = 2500000 => Is(25, "M")]_vars

\* an ingestion has returned a record whose stars read 2.5M
C21_Witness ==
    \E r \in Requests :
        /\ req[r].kind = "analyze" /\ req[r].pc = "done" /\ req[r].calls # <<>>
        /\ req[r].response.status = 200
        /\ req[r].response.record.stars = [tenths |-> 25, suffix |-> "M"]

\* C29: the number part of a star count with the suffix k is below 1000.
C29_ThousandsBelowThousand ==
    \A r \in Requests :
        (req[r].response.status = 200 /\ req[r].response.record.stars.suffix = "k")
            => req[r].response.record.stars.tenths < 10000

\* the sum of the numerators of a list of percentages
RECURSIVE SumNum(_)
SumNum(percentages) ==
    IF percentages = <<>> THEN 0 ELSE Head(percentages).num + SumNum(Tail(percentages))

BuiltFrom(r) ==
    /\ req[r].kind = "analyze" /\ req[r].pc = "done" /\ req[r].response.status = 200
    /\ req[r].commitData # NoCommits

\* C24: the weeks of the commitActivity entries of an ingested record never
\* decrease along the list, whether the list was built from the provider's
\* series or synthesized.
C24_CommitActivityChronological ==
    \A r \in Requests :
        BuiltFrom(r) =>
            LET activity == req[r].response.record.commitActivity IN
            \A i \in 2..Len(activity) : activity[i].week >= activity[i - 1].week

\* C25: commitFrequency is the mean of the last min(12, length) weekly
\* totals, rounded to the nearest integer, and 0 for an empty or non-array
\* series.
C25_CommitFrequencyMean ==
    \A r \in Requests :
        BuiltFrom(r) =>
            LET weeks == req[r].commitData.weeks
                n == req[r].response.record.commitFrequency
                count == IF Len(weeks) < 12 THEN Len(weeks) ELSE 12
                last == SubSeq(weeks, Len(weeks) - count + 1, Len(weeks))
                sum == SumNum([i \in 1..count |-> [num |-> last[i].total]])
                Distance(a, b) == IF a < b THEN b - a ELSE a - b
            IN  IF req[r].commitData.shape = "array" /\ count > 0
                THEN 2 * Distance(n * count, sum) <= count
                ELSE n = 0

\* an ingestion has built a record from a series of 13 weeks with the totals
\* 1..13: the mean 7.5 of the last twelve gives 8/week
C25_Witness ==
    \E r \in Requests :
        /\ BuiltFrom(r)
        /\ req[r].commitData.weeks = WeekSeries(13)
        /\ req[r].response.record.commitFrequency = 8

(***************************************************************************)
(* Properties of the order of the provider calls.                          *)
(***************************************************************************)
\* the provider calls of a single-file analysis, in the order of the code
FileCalls == <<"contents", "tree", "completion">>

\* calls is the tree, then file contents only, then at most one completion
IsSamplingOrder(calls) ==
    \/ calls = <<>>
    \/ /\ calls[1] = "tree"
       /\ \A i \in 2..(Len(calls) - 1) : calls[i] = "contents"
       /\ Len(calls) > 1 => calls[Len(calls)] \in {"contents", "completion"}

\* C23: a request issues its provider calls one at a time, a call only in
\* the step in which the call before it is answered: an ingestion in the
\* order repository info, languages, commit activity; a whole-repository
\* analysis the tree, then the files, then the completion; and no analysis
\* request calls the Completion Provider twice.
C23_CallsOneAfterAnother ==
    [][\A r \in Requests :
          LET before == req[r].calls
              after == req'[r].calls
          IN  /\ after # before =>
                    /\ Len(after) = Len(before) + 1
                    /\ SubSeq(after, 1, Len(before)) = before
                    /\ before # <<>> => req[r].pc \notin {"idle", "done"}
              /\ req'[r].kind = "analyze" => after = SubSeq(IngestionCalls, 1, Len(after))
              /\ req'[r].kind = "file" => after = SubSeq(FileCalls, 1, Len(after))
              /\ req'[r].kind = "repo" => IsSamplingOrder(after)
              /\ Cardinality({i \in 1..Len(after) : after[i] = "completion"}) <= 1
              /\ req'[r].pc \notin {"idle", "done"} => after # <<>>]_vars

\* a whole-repository analysis has ended after the tree, two files and one
\* completion, and an ingestion after its three calls
C23_Witness ==
    \E r, q \in Requests :
        /\ req[r].kind = "analyze" /\ req[r].pc = "done" /\ req[r].calls = IngestionCalls
        /\ req[q].kind = "repo" /\ req[q].pc = "done"
        /\ req[q].calls = <<"tree", "contents", "contents", "completion">>

(***************************************************************************)
(* Properties of the cache over all endpoints.                             *)
(***************************************************************************)
\* the ingestion r stores its record in this step, after its third
\* provider call has succeeded
Stores(r) ==
    /\ BuildsRecord(r)
    /\ req[r].calls = IngestionCalls
    /\ repositories' = CreateRepository(req'[r].response.record)

\* C26: the cache changes only in a step in which an ingestion that missed
\* the cache stores its record after its three provider calls succeeded; no
\* other step of any request, failing or not, on any endpoint, changes it.
C26_OnlyIngestionWrites ==
    [][repositories' # repositories => \E r \in Requests : Stores(r)]_vars

\* the cache holds the record of an ingestion, and a request on another
\* endpoint has been answered after it
C26_Witness ==
    \E r, q \in Requests :
        /\ r < q
        /\ req[r].kind = "analyze" /\ req[r].pc = "done" /\ req[r].calls = IngestionCalls
        /\ repositories = <<req[r].response.record>>
        /\ req[q].kind = "repo" /\ req[q].pc = "done" /\ req[q].response.status = 500

\* C27: the record that an ingestion stores has the fullName that was looked
\* up for its URL, so the lookup of the same URL finds it afterwards.
C27_StoredUnderLookupKey ==
    \A r \in Requests :
        (/\ req[r].kind = "analyze" /\ req[r].pc = "done"
         /\ req[r].response.status = 200 /\ req[r].calls # <<>>)
        => /\ req[r].response.record.fullName = UrlKey(req[r].url)
           /\ GetRepositoryByFullName(UrlKey(req[r].url)) # NoRepository

\* q was answered with a record
Returned(q) ==
    req[q].kind = "analyze" /\ req[q].pc = "done" /\ req[q].response.status = 200

\* the cache holds a record under this id after the step
CachedAfter(id) == \E i \in 1..Len(repositories') : repositories'[i].id = id

\* C28: the id of every record that /analyze has returned stays a key of
\* the cache, and a later readme, file analysis or whole-repository analysis
\* request that names it is not answered with 404.
C28_ReturnedIdStaysCached ==
    [][\A q \in Requests :
          (Returned(q))' =>
              LET id == req'[q].response.record.id IN
              /\ CachedAfter(id)
              /\ \A r \in Requests :
                    (/\ Returned(q) /\ Arrives(r)
                     /\ req'[r].kind \in {"readme", "file", "repo"}
                     /\ req'[r].repositoryId = id)
                    => req'[r].response.status # 404]_vars

\* a README request that names the id of a returned record was answered
\* with the document
C28_Witness ==
    \E r, q \in Requests :
        /\ Returned(q) /\ q < r
        /\ req[r].kind = "readme" /\ req[r].pc = "done"
        /\ req[r].repositoryId = req[q].response.record.id
        /\ req[r].response.status = 200

(***************************************************************************)
(* Properties of the file explorer.                                        *)
(***************************************************************************)
\* C30: a displayed result of a file analysis is the analysis of the file
\* that is selected; none is displayed for another selection or without a
\* selection.
C30_ResultOfSelectedFile ==
    (Displayed /\ explorer.analysisResult.kind = "file")
        => explorer.analysisResult.path = explorer.selectedFile

====
